---------------------------- MODULE Spec2Model ----------------------------
(***************************************************************************)
(* A model of trpc-controllers: the guard and rate-limit middleware        *)
(* factories (src/src/decorators.ts), the dual metadata store and its      *)
(* merge (src/src/meta.ts), the low-level decorator factory                *)
(* (makeDecorators) and the router builder (src/src/class-router.ts).      *)
(*                                                                         *)
(* JavaScript values are encoded as follows.  An optional value (a field   *)
(* that may be undefined) is a sequence of length 0 (undefined) or 1.      *)
(* A guard result is a pair <<typeof, text>> so that the boolean true and  *)
(* the string "true" are different values.                                 *)
(***************************************************************************)
EXTENDS Integers, Sequences, FiniteSets, TLC

None == <<>>
Some(v) == <<v>>
IsDef(o) == Len(o) > 0
Val(o) == o[1]
\* JavaScript's  a ?? b  on optionals
Coalesce(a, b) == IF IsDef(a) THEN a ELSE b

Max(a, b) == IF a >= b THEN a ELSE b

(***************************************************************************)
(* Bounds of the model.                                                    *)
(***************************************************************************)
MaxReqs == 3          \* requests that pass through a middleware unit
MaxTicks == 3         \* clock advances
TickMs == 500         \* milliseconds per clock advance
MaxPoints == 2        \* RateLimitOptions.points ranges over 1..MaxPoints
MaxDurationSec == 1   \* RateLimitOptions.durationSec ranges over 0..MaxDurationSec
MaxDecorations == 3   \* marker applications before routers are built
MaxParamIndex == 1    \* parameter positions range over 0..MaxParamIndex
MaxControllers == 2   \* controllers in the list handed to createClassRouter
MaxBurstSec == 5      \* the longer durationSec of two rate-limit units on one procedure; seconds that pass
MaxBurstReqs == 5     \* requests sent to a procedure behind two rate-limit units

Reqs == 1..MaxReqs

\* the controller classes: two whose names differ in the first letter's case
\* only, and a class expression that has no name
Classes == {"Users", "users", ""}
\* ctor.name, as a sequence of characters
constructorName(c) ==
  CASE c = "Users" -> <<"U", "s", "e", "r", "s">>
    [] c = "users" -> <<"u", "s", "e", "r", "s">>
    [] c = "Admin" -> <<"A", "d", "m", "i", "n">>
    [] OTHER -> <<>>
\* Admin is declared as `class Admin extends Users`: the constructor Admin has
\* the constructor Users as its prototype, and the metadata object of Admin's
\* decoration context has the metadata object of Users as its prototype.
AllClasses == Classes \cup {"Admin"}
superclass(c) == IF c = "Admin" THEN Some("Users") ELSE None
\* holder[META_KEY] read on the holder of class c: the class's own property,
\* else the one found along the prototype chain
lookup(own, c) ==
  IF IsDef(own[c]) \/ ~IsDef(superclass(c)) THEN own[c] ELSE own[Val(superclass(c))]
\* the class on whose holder that property sits; holder[META_KEY] ??= {}
\* creates it on c's own holder when the lookup finds none
holderOf(own, c) ==
  IF ~IsDef(own[c]) /\ IsDef(superclass(c)) /\ IsDef(own[Val(superclass(c))])
    THEN Val(superclass(c)) ELSE c

\* the makeDecorators calls, each with its own META_KEY (decorators.ts:272)
DecoratorSets == {"d1", "d2"}

VARIABLES
  clock,            \* Date.now(), in milliseconds
  rateLimitStore,   \* decorators.ts:123  window key -> optional {count, resetAt}
  rl,               \* per request: position in the rate-limit middleware
  windowLog,        \* per window key: the invocations since the entry was last reset
  lastCall,         \* the most recent rate-limit invocation, with the entry it found
  guard,            \* per request: position in the guard middleware
  legacy,           \* meta.ts:122  per class: optional ctor[META_KEY]
  standard,         \* meta.ts:123  per class: optional ctor[Symbol.metadata][META_KEY]
  applied,          \* number of marker applications so far
  built,            \* result of the most recent router construction
  low,              \* decorators.ts:272  per makeDecorators call: the two holders of its META_KEY
  annotated,        \* per makeDecorators call: the methods its markers were applied to
  lowBuilt,         \* per makeDecorators call: the router its controllerToRouter returned
  aggregate,        \* the controllers handed to createClassRouter and what it returned
  called,           \* class-router.ts:118  the most recent resolver call and what the method received
  lastApp,          \* the most recent marker application, with the class's view before it
  segregated,       \* per class: the holders had it seen only its legacy-mode, only its modern-mode applications
  unitsLog,         \* the middleware units handed to the markers, in the order of application
  burst             \* one procedure behind two rate-limit units: their options, the request in flight, the admissions

rateLimitVars == <<clock, rateLimitStore, rl, windowLog, lastCall>>
metaVars == <<legacy, standard, applied, built, aggregate>>
lowVars == <<low, annotated, lowBuilt>>
callVars == <<called>>
historyVars == <<lastApp, segregated, unitsLog>>
vars == <<clock, rateLimitStore, rl, windowLog, lastCall, guard, legacy, standard, applied, built,
          low, annotated, lowBuilt, aggregate, called, lastApp, segregated,
          unitsLog, burst>>

(***************************************************************************)
(* Rate-limit middleware, decorators.ts:142-159.                           *)
(***************************************************************************)
Paths == {None, Some("a")}
\* what options.key(ctx) returns; None also stands for "no key function"
KeyParts == {None, Some("global")}

RateLimitOptions ==
  [points : 1..MaxPoints, durationSec : 0..MaxDurationSec]

\* decorators.ts:143
durationMs(options) == Max(1, options.durationSec) * 1000

\* decorators.ts:145-146   `${path ?? 'unknown'}:${keyPart ?? 'global'}`
windowKeyIgnoringPath(path, keyPart) ==
  "unknown:" \o Val(Coalesce(keyPart, Some("global")))
windowKey(path, keyPart) ==
  Val(Coalesce(path, Some("unknown"))) \o ":" \o Val(Coalesce(keyPart, Some("global")))

WindowKeys == {windowKey(p, k) : p \in Paths, k \in KeyParts}

\* decorators.ts:149   !entry || now >= entry.resetAt
isFresh(entry, now) == ~IsDef(entry) \/ now >= Val(entry).resetAt

\* decorators.ts:150 and 153: the entry the invocation leaves in the map
entryAfterSliding(options, entry, now) ==
  IF isFresh(entry, now)
    THEN [count |-> 1, resetAt |-> now + durationMs(options)]
    ELSE [count |-> Val(entry).count + 1, resetAt |-> now + durationMs(options)]
entryAfterNoIncrement(options, entry, now) ==
  IF isFresh(entry, now)
    THEN [count |-> 1, resetAt |-> now + durationMs(options)]
    ELSE Val(entry)
entryAfter(options, entry, now) ==
  IF isFresh(entry, now)
    THEN [count |-> 1, resetAt |-> now + durationMs(options)]
    ELSE [count |-> Val(entry).count + 1, resetAt |-> Val(entry).resetAt]

\* decorators.ts:149-157: TRUE when next() is called, FALSE when
\* TOO_MANY_REQUESTS is thrown
admitsOffByOne(options, entry, now) ==
  isFresh(entry, now) \/ ~(entryAfter(options, entry, now).count >= options.points)
admits(options, entry, now) ==
  isFresh(entry, now) \/ ~(entryAfter(options, entry, now).count > options.points)

(***************************************************************************)
(* The body of the middleware has no await between reading the entry       *)
(* (line 148) and the return or throw (lines 151-157): under JavaScript's  *)
(* run-to-completion scheduling it is one step.  The request is then       *)
(* suspended in next() until the rest of the chain returns.                *)
(***************************************************************************)
RateLimitInvoke(r, options, path, keyPart) ==
  LET key == windowKey(path, keyPart)
      entry == rateLimitStore[key]
      fresh == isFresh(entry, clock)
      ok == admits(options, entry, clock)
      rec == [req |-> r, points |-> options.points, admitted |-> ok]
  IN /\ rl[r].pc = "idle"
     /\ \A q \in Reqs : q < r => rl[q].pc # "idle"
     /\ rateLimitStore' = [rateLimitStore EXCEPT ![key] = Some(entryAfter(options, entry, clock))]
     /\ rl' = [rl EXCEPT ![r] = [pc |-> IF ok THEN "next" ELSE "TOO_MANY_REQUESTS", key |-> Some(key)]]
     /\ windowLog' = [windowLog EXCEPT ![key] = IF fresh THEN <<rec>> ELSE Append(@, rec)]
     /\ lastCall' = Some([req |-> r, path |-> path, keyPart |-> keyPart, key |-> key, now |-> clock,
                          options |-> options, found |-> entry, admitted |-> ok])
     /\ UNCHANGED <<clock, guard, metaVars, lowVars, callVars, historyVars, burst>>

\* decorators.ts:151,157: the awaited next() returns
RateLimitNextReturns(r) ==
  /\ rl[r].pc = "next"
  /\ rl' = [rl EXCEPT ![r].pc = "done"]
  /\ UNCHANGED <<clock, rateLimitStore, windowLog, lastCall, guard, metaVars, lowVars, callVars, historyVars, burst>>

\* decorators.ts:147: Date.now() advances between steps
Tick ==
  /\ clock < MaxTicks * TickMs
  /\ clock' = clock + TickMs
  /\ UNCHANGED <<rateLimitStore, rl, windowLog, lastCall, guard, metaVars, lowVars, callVars, historyVars, burst>>

(***************************************************************************)
(* Guard middleware, decorators.ts:131-140.                                *)
(***************************************************************************)
JsTrue == <<"boolean", "true">>
JsFalse == <<"boolean", "false">>
JsString(s) == <<"string", s>>
GuardResults ==
  {JsTrue, JsFalse, JsString("FORBIDDEN"), JsString("UNAUTHORIZED"),
   JsString("true"), JsString("forbidden"), <<"number", "1">>, <<"undefined", "undefined">>}

\* decorators.ts:134-138: "next", or the code of the TRPCError thrown
authOutcomeTruthy(result) ==
  IF result \notin {JsFalse, <<"undefined", "undefined">>, JsString("FORBIDDEN"), JsString("UNAUTHORIZED")}
    THEN "next"
    ELSE IF result = JsString("FORBIDDEN") \/ result = JsString("UNAUTHORIZED")
      THEN result[2]
      ELSE "UNAUTHORIZED"
authOutcome(result) ==
  IF result = JsTrue THEN "next"
  ELSE IF result = JsString("FORBIDDEN") \/ result = JsString("UNAUTHORIZED")
    THEN result[2]
    ELSE "UNAUTHORIZED"

GuardIdle == [pc |-> "idle", result |-> None, nextCalled |-> FALSE, ran |-> FALSE]

\* decorators.ts:133: the middleware calls the predicate and suspends on it
GuardInvoke(r) ==
  /\ guard[r].pc = "idle"
  /\ \A q \in Reqs : q < r => guard[q].pc # "idle"
  /\ guard' = [guard EXCEPT ![r].pc = "awaiting"]
  /\ UNCHANGED <<rateLimitVars, metaVars, lowVars, callVars, historyVars, burst>>

\* decorators.ts:134-138: the predicate's promise settles with `result`
GuardSettles(r, result) ==
  /\ guard[r].pc = "awaiting"
  /\ guard' = [guard EXCEPT ![r] =
                 [pc |-> authOutcome(result), result |-> Some(result),
                  nextCalled |-> authOutcome(result) = "next", ran |-> FALSE]]
  /\ UNCHANGED <<rateLimitVars, metaVars, lowVars, callVars, historyVars, burst>>

\* decorators.ts:133: the predicate throws or its promise rejects; the
\* rejection propagates out of the middleware
GuardRejects(r) ==
  /\ guard[r].pc = "awaiting"
  /\ guard' = [guard EXCEPT ![r].pc = "rejected"]
  /\ UNCHANGED <<rateLimitVars, metaVars, lowVars, callVars, historyVars, burst>>

\* decorators.ts:134: next() runs the later middleware and the resolver
GuardChainRuns(r) ==
  /\ guard[r].pc = "next"
  /\ guard[r].nextCalled
  /\ guard' = [guard EXCEPT ![r].pc = "resolved", ![r].ran = TRUE]
  /\ UNCHANGED <<rateLimitVars, metaVars, lowVars, callVars, historyVars, burst>>

(***************************************************************************)
(* Metadata store, meta.ts:18-58 and decorators.ts:24-36.                  *)
(*                                                                         *)
(* A JavaScript object used as a map is a sequence of [k, v] entries in    *)
(* insertion order (the order Reflect.ownKeys and Object.entries give for  *)
(* keys that are not integer-like).  A free-form annotation bag is a set   *)
(* of <<key, value>> pairs with at most one pair per key.  A field that is *)
(* absent and a field that holds undefined are the same optional None.     *)
(***************************************************************************)
MapHas(m, k) == \E i \in DOMAIN m : m[i].k = k
MapGet(m, k) == m[CHOOSE i \in DOMAIN m : m[i].k = k].v
MapSet(m, k, v) ==
  IF MapHas(m, k)
    THEN [i \in DOMAIN m |-> IF m[i].k = k THEN [k |-> k, v |-> v] ELSE m[i]]
    ELSE Append(m, [k |-> k, v |-> v])
MapKeys(m) == [i \in DOMAIN m |-> m[i].k]
MapKeySet(m) == {m[i].k : i \in DOMAIN m}
\* a?.[key]
MapGetOpt(om, k) == IF IsDef(om) /\ MapHas(Val(om), k) THEN Some(MapGet(Val(om), k)) ELSE None

BagKeys(bag) == {p[1] : p \in bag}
\* { ...a, ...b }
Spread(a, b) == b \cup {p \in a : p[1] \notin BagKeys(b)}

\* meta.ts:27-31, 18-25, 33-36, 38-42
EmptyClassMeta == [name |-> None, middlewares |-> None, meta |-> None]
EmptyMethodMeta ==
  [kind |-> None, name |-> None, input |-> None, output |-> None,
   middlewares |-> None, meta |-> None]
EmptyParamMeta == [ctxIndex |-> None, inputIndex |-> None]
EmptyStore == [class |-> None, methods |-> None, params |-> None]

\* meta.ts:47-49   holder[META_KEY] ??= {}
ensureStore(holder) == Coalesce(holder, Some(EmptyStore))

\* decorators.ts:24-26
ensureClassMeta(store) ==
  [store EXCEPT !.class = Coalesce(@, Some(EmptyClassMeta))]

\* decorators.ts:28-31
ensureMethodMeta(store, name) ==
  LET methods == Val(Coalesce(store.methods, Some(<<>>)))
  IN [store EXCEPT !.methods =
        Some(IF MapHas(methods, name) THEN methods ELSE MapSet(methods, name, EmptyMethodMeta))]

\* decorators.ts:33-36
ensureParamMeta(store, name) ==
  LET params == Val(Coalesce(store.params, Some(<<>>)))
  IN [store EXCEPT !.params =
        Some(IF MapHas(params, name) THEN params ELSE MapSet(params, name, EmptyParamMeta))]

(***************************************************************************)
(* Merge engine, meta.ts:60-129.                                           *)
(***************************************************************************)
\* x?.field
Field(o, f) == IF IsDef(o) THEN Val(o)[f] ELSE None

\* meta.ts:60-63
mergeArraysModernFirst(a, b) ==
  LET merged == Val(Coalesce(b, Some(<<>>))) \o Val(Coalesce(a, Some(<<>>)))
  IN IF Len(merged) > 0 THEN Some(merged) ELSE None
mergeArrays(a, b) ==
  IF (~IsDef(a) \/ Len(Val(a)) = 0) /\ (~IsDef(b) \/ Len(Val(b)) = 0) THEN None
  ELSE Some(Val(Coalesce(a, Some(<<>>))) \o Val(Coalesce(b, Some(<<>>))))

\* meta.ts:65-71
mergeMetaObjectsModernOnly(a, b) == b
mergeMetaObjects(a, b) ==
  IF ~IsDef(a) /\ ~IsDef(b) THEN None
  ELSE Some(Spread(Val(Coalesce(a, Some({}))), Val(Coalesce(b, Some({})))))

\* meta.ts:73-80
mergeClassMeta(a, b) ==
  IF ~IsDef(a) /\ ~IsDef(b) THEN None
  ELSE Some([name |-> Coalesce(Field(b, "name"), Field(a, "name")),
             middlewares |-> mergeArrays(Field(a, "middlewares"), Field(b, "middlewares")),
             meta |-> mergeMetaObjects(Field(a, "meta"), Field(b, "meta"))])

\* meta.ts:82-92
mergeMethodMetaLegacyWins(a, b) ==
  IF ~IsDef(a) /\ ~IsDef(b) THEN None
  ELSE Some([kind |-> Coalesce(Field(a, "kind"), Field(b, "kind")),
             name |-> Coalesce(Field(a, "name"), Field(b, "name")),
             input |-> Coalesce(Field(a, "input"), Field(b, "input")),
             output |-> Coalesce(Field(a, "output"), Field(b, "output")),
             middlewares |-> mergeArrays(Field(a, "middlewares"), Field(b, "middlewares")),
             meta |-> mergeMetaObjects(Field(a, "meta"), Field(b, "meta"))])
mergeMethodMeta(a, b) ==
  IF ~IsDef(a) /\ ~IsDef(b) THEN None
  ELSE Some([kind |-> Coalesce(Field(b, "kind"), Field(a, "kind")),
             name |-> Coalesce(Field(b, "name"), Field(a, "name")),
             input |-> Coalesce(Field(b, "input"), Field(a, "input")),
             output |-> Coalesce(Field(b, "output"), Field(a, "output")),
             middlewares |-> mergeArrays(Field(a, "middlewares"), Field(b, "middlewares")),
             meta |-> mergeMetaObjects(Field(a, "meta"), Field(b, "meta"))])

\* meta.ts:94-100
mergeParamMeta(a, b) ==
  IF ~IsDef(a) /\ ~IsDef(b) THEN None
  ELSE Some([ctxIndex |-> Coalesce(Field(b, "ctxIndex"), Field(a, "ctxIndex")),
             inputIndex |-> Coalesce(Field(b, "inputIndex"), Field(a, "inputIndex"))])

\* meta.ts:102-104
ownKeys(obj) == IF IsDef(obj) THEN MapKeys(Val(obj)) ELSE <<>>

\* new Set([...xs]): the first occurrence of each element, in order
RECURSIVE Dedup(_)
Dedup(xs) ==
  IF Len(xs) = 0 THEN <<>>
  ELSE LET init == Dedup(SubSeq(xs, 1, Len(xs) - 1))
           last == xs[Len(xs)]
       IN IF \E i \in DOMAIN init : init[i] = last THEN init ELSE Append(init, last)

\* meta.ts:106-119; mergeValue names the callback the caller passes
mergeRecord(a, b, mergeValue) ==
  LET keys == Dedup(ownKeys(a) \o ownKeys(b))
      merged(key) ==
        IF mergeValue = "mergeMethodMeta"
          THEN mergeMethodMeta(MapGetOpt(a, key), MapGetOpt(b, key))
          ELSE mergeParamMeta(MapGetOpt(a, key), MapGetOpt(b, key))
      kept == SelectSeq(keys, LAMBDA key : IsDef(merged(key)))
  IN IF Len(keys) = 0 THEN None
     ELSE Some([i \in DOMAIN kept |-> [k |-> kept[i], v |-> Val(merged(kept[i]))]])

\* meta.ts:121-129, on the two physical stores of one class
readStoreLegacyMethods(leg, std) ==
  [class |-> mergeClassMeta(Field(leg, "class"), Field(std, "class")),
   methods |-> mergeRecord(Field(leg, "methods"), None, "mergeMethodMeta"),
   params |-> mergeRecord(Field(leg, "params"), Field(std, "params"), "mergeParamMeta")]
readStore(leg, std) ==
  [class |-> mergeClassMeta(Field(leg, "class"), Field(std, "class")),
   methods |-> mergeRecord(Field(leg, "methods"), Field(std, "methods"), "mergeMethodMeta"),
   params |-> mergeRecord(Field(leg, "params"), Field(std, "params"), "mergeParamMeta")]

(***************************************************************************)
(* Annotation layer, decorators.ts:20-110 and 161-263.                     *)
(*                                                                         *)
(* The arguments of one marker application are a record: ctx is the        *)
(* second argument when it is a decorator context (an object with a kind   *)
(* field), key is the second argument otherwise, index the third argument  *)
(* when it is a number, n the number of arguments; target tells what the   *)
(* first argument is: the class ("ctor"), its prototype ("proto") or none. *)
(* The holder of a class is the pair of its two physical stores.           *)
(***************************************************************************)
Holder(c) == [legacy |-> lookup(legacy, c), standard |-> lookup(standard, c)]

\* !!name for a member or route name
Truthy(name) == IsDef(name) /\ Val(name) # ""
\* !!name for a namespace name (a sequence of characters)
TruthyChars(name) == IsDef(name) /\ Len(Val(name)) > 0

\* decorators.ts:20-22
isDecoratorContext(args) == IsDef(args.ctx)

\* decorators.ts:49   typeof target === 'function' ? target : target?.constructor
hasCtor(args) == args.target \in {"ctor", "proto"}

\* meta.ts:51-54 and 56-58, as updates of the holder
getStoreFromContext(h) == [h EXCEPT !.standard = ensureStore(@)]
getStoreFromCtor(h) == [h EXCEPT !.legacy = ensureStore(@)]

\* decorators.ts:112-121; an item is <<"unit", mw>>, <<"array", mws>> or <<"falsy">>
RECURSIVE normalizeMiddlewares(_)
normalizeMiddlewares(middlewares) ==
  IF Len(middlewares) = 0 THEN <<>>
  ELSE LET item == Head(middlewares)
           rest == normalizeMiddlewares(Tail(middlewares))
       IN IF item[1] = "array" THEN item[2] \o rest
          ELSE IF item[1] = "unit" THEN <<item[2]>> \o rest
          ELSE rest

\* [...(meta.middlewares ?? []), ...units]
appendUnits(meta, units) ==
  [meta EXCEPT !.middlewares = Some(Val(Coalesce(@, Some(<<>>))) \o units)]

\* the apply callbacks of the method markers: decorators.ts:167-193 and the
\* second callbacks of 195-239
applyMethod(marker, meta) ==
  CASE marker.m \in {"Query", "Mutation", "Subscription"} ->
         [meta EXCEPT !.kind = Some(marker.kind),
                      !.name = IF Truthy(marker.name) THEN marker.name ELSE @]
    [] marker.m = "UseZod" ->
         [meta EXCEPT !.input = marker.input,
                      !.output = IF IsDef(marker.output) THEN marker.output ELSE @]
    [] marker.m = "UseMiddlewares" ->
         appendUnits(meta, normalizeMiddlewares(marker.middlewares))
    [] marker.m \in {"Auth", "RateLimit"} -> appendUnits(meta, <<marker.mw>>)
    [] marker.m = "Meta" ->
         [meta EXCEPT !.meta = Some(Spread(Val(Coalesce(@, Some({}))), marker.meta))]

\* the apply callbacks of the class markers: decorators.ts:161-165 and the
\* first callbacks of 195-239
applyClass(marker, meta) ==
  CASE marker.m = "Router" ->
         [meta EXCEPT !.name = IF TruthyChars(marker.name) THEN marker.name ELSE @]
    [] marker.m = "UseMiddlewares" ->
         appendUnits(meta, normalizeMiddlewares(marker.middlewares))
    [] marker.m \in {"Auth", "RateLimit"} -> appendUnits(meta, <<marker.mw>>)
    [] marker.m = "Meta" ->
         [meta EXCEPT !.meta = Some(Spread(Val(Coalesce(@, Some({}))), marker.meta))]

\* ensure the class meta of the store in `slot` and apply the marker to it
onClassMeta(h, slot, marker) ==
  LET store == ensureClassMeta(Val(h[slot]))
  IN [h EXCEPT ![slot] = Some([store EXCEPT !.class = Some(applyClass(marker, Val(@)))])]

\* ensure the method meta `name` of the store in `slot` and apply the marker to it
onMethodMeta(h, slot, name, marker) ==
  LET store == ensureMethodMeta(Val(h[slot]), name)
      meta == MapGet(Val(store.methods), name)
  IN [h EXCEPT ![slot] =
        Some([store EXCEPT !.methods = Some(MapSet(Val(@), name, applyMethod(marker, meta)))])]

\* decorators.ts:38-53 with 68-74: the holder after a method marker
createMethodDecorator(h, args, marker) ==
  IF isDecoratorContext(args)
    THEN LET name == Val(args.ctx).name
         IN IF ~Truthy(name) THEN getStoreFromContext(h)
            ELSE onMethodMeta(getStoreFromContext(h), "standard", Val(name), marker)
    ELSE IF ~Truthy(args.key) THEN h
    ELSE IF ~hasCtor(args) THEN h
    ELSE onMethodMeta(getStoreFromCtor(h), "legacy", Val(args.key), marker)

\* decorators.ts:55-66 with 76-82: the holder after a class marker
createClassDecoratorModernToCtor(h, args, marker) ==
  IF isDecoratorContext(args)
    THEN IF Val(args.ctx).kind # "class" THEN h
         ELSE onClassMeta(getStoreFromCtor(h), "legacy", marker)
    ELSE IF args.target # "ctor" THEN h
    ELSE onClassMeta(getStoreFromCtor(h), "legacy", marker)
createClassDecorator(h, args, marker) ==
  IF isDecoratorContext(args)
    THEN IF Val(args.ctx).kind # "class" THEN h
         ELSE onClassMeta(getStoreFromContext(h), "standard", marker)
    ELSE IF args.target # "ctor" THEN h
    ELSE onClassMeta(getStoreFromCtor(h), "legacy", marker)

\* decorators.ts:84-110: the holder after a class-or-method marker
createClassOrMethodDecorator(h, args, marker) ==
  IF isDecoratorContext(args)
    THEN IF Val(args.ctx).kind = "class"
           THEN onClassMeta(getStoreFromContext(h), "standard", marker)
           ELSE onMethodMeta(getStoreFromContext(h), "standard",
                             Val(Coalesce(Val(args.ctx).name, Some(""))), marker)
    ELSE IF args.n = 1 THEN createClassDecorator(h, args, marker)
    ELSE createMethodDecorator(h, args, marker)

\* decorators.ts:241-263: the holder after a parameter marker
paramDecorator(h, args, field) ==
  IF ~IsDef(args.index) \/ ~Truthy(args.key) THEN h
  ELSE IF ~hasCtor(args) THEN h
  ELSE LET h1 == getStoreFromCtor(h)
           store == ensureParamMeta(ensureMethodMeta(Val(h1.legacy), Val(args.key)), Val(args.key))
           meta == MapGet(Val(store.params), Val(args.key))
       IN [h1 EXCEPT !.legacy =
             Some([store EXCEPT !.params =
                     Some(MapSet(Val(@), Val(args.key), [meta EXCEPT ![field] = args.index]))])]

\* One marker application on class c.  Markers run while the class is being
\* defined, before an instance of it can be handed to a router builder.
Decorate(c, h) ==
  /\ applied < MaxDecorations
  /\ built = None
  /\ aggregate = None
  /\ applied' = applied + 1
  /\ legacy' = [legacy EXCEPT ![holderOf(legacy, c)] = h.legacy]
  /\ standard' = [standard EXCEPT ![holderOf(standard, c)] = h.standard]
  /\ UNCHANGED <<rateLimitVars, guard, built, lowVars, aggregate, callVars, historyVars, burst>>

\* decorators.ts:161-165
Router(c, name, args) ==
  Decorate(c, createClassDecorator(Holder(c), args, [m |-> "Router", name |-> name]))

\* decorators.ts:167-172
Query(c, name, args) ==
  Decorate(c, createMethodDecorator(Holder(c), args,
                [m |-> "Query", kind |-> "query", name |-> name]))

\* decorators.ts:174-179
Mutation(c, name, args) ==
  Decorate(c, createMethodDecorator(Holder(c), args,
                [m |-> "Mutation", kind |-> "mutation", name |-> name]))

\* decorators.ts:181-186
Subscription(c, name, args) ==
  Decorate(c, createMethodDecorator(Holder(c), args,
                [m |-> "Subscription", kind |-> "subscription", name |-> name]))

\* decorators.ts:188-193
UseZod(c, input, output, args) ==
  Decorate(c, createMethodDecorator(Holder(c), args,
                [m |-> "UseZod", input |-> Some(input), output |-> output]))

\* decorators.ts:195-204
UseMiddlewares(c, middlewares, args) ==
  Decorate(c, createClassOrMethodDecorator(Holder(c), args,
                [m |-> "UseMiddlewares", middlewares |-> middlewares]))

\* decorators.ts:206-216; the unit made by createAuthMiddleware is "auth"
Auth(c, args) ==
  Decorate(c, createClassOrMethodDecorator(Holder(c), args, [m |-> "Auth", mw |-> "auth"]))

\* decorators.ts:218-228; the unit made by createRateLimitMiddleware is "rateLimit"
RateLimit(c, args) ==
  Decorate(c, createClassOrMethodDecorator(Holder(c), args,
                [m |-> "RateLimit", mw |-> "rateLimit"]))

\* decorators.ts:230-239
Meta(c, meta, args) ==
  Decorate(c, createClassOrMethodDecorator(Holder(c), args, [m |-> "Meta", meta |-> meta]))

\* decorators.ts:241-251
Ctx(c, args) == Decorate(c, paramDecorator(Holder(c), args, "ctxIndex"))

\* decorators.ts:253-263
Input(c, args) == Decorate(c, paramDecorator(Holder(c), args, "inputIndex"))

\* decorators.ts:161-263: the factory each exported marker is made with
decorator(h, args, marker) ==
  CASE marker.m = "Router" -> createClassDecorator(h, args, marker)
    [] marker.m \in {"Query", "Mutation", "Subscription", "UseZod"} ->
         createMethodDecorator(h, args, marker)
    [] marker.m \in {"UseMiddlewares", "Auth", "RateLimit", "Meta"} ->
         createClassOrMethodDecorator(h, args, marker)
    [] marker.m = "Ctx" -> paramDecorator(h, args, "ctxIndex")
    [] marker.m = "Input" -> paramDecorator(h, args, "inputIndex")

\* One application of an exported marker on class c, with the record of it
\* that the properties about applications refer to.
Annotate(c, marker, args) ==
  LET h == decorator(Holder(c), args, marker)
      mode == IF isDecoratorContext(args) THEN "standard" ELSE "legacy"
  IN /\ applied < MaxDecorations
     /\ built = None
     /\ aggregate = None
     /\ applied' = applied + 1
     /\ legacy' = [legacy EXCEPT ![holderOf(legacy, c)] = h.legacy]
     /\ standard' = [standard EXCEPT ![holderOf(standard, c)] = h.standard]
     /\ lastApp' = Some([class |-> c, marker |-> marker, args |-> args,
                         before |-> readStore(Holder(c).legacy, Holder(c).standard)])
     /\ segregated' = [segregated EXCEPT ![c][mode] = decorator(@, args, marker)]
     /\ unitsLog' = IF marker.m \in {"UseMiddlewares", "Auth", "RateLimit"}
                      THEN Append(unitsLog, [marker |-> marker, args |-> args])
                      ELSE unitsLog
     /\ UNCHANGED <<rateLimitVars, guard, built, lowVars, aggregate, callVars, burst>>

(***************************************************************************)
(* The shapes in which the language runtime applies a marker.              *)
(***************************************************************************)
NoArgs == [ctx |-> None, target |-> "none", key |-> None, index |-> None, n |-> 0]
LegacyClassArgs == [NoArgs EXCEPT !.target = "ctor", !.n = 1]
ModernClassArgs(c) ==
  [NoArgs EXCEPT !.ctx = Some([kind |-> "class", name |-> IF c = "" THEN None ELSE Some(c)]),
                 !.target = "ctor", !.n = 2]
LegacyMethodArgs(member) == [NoArgs EXCEPT !.target = "proto", !.key = Some(member), !.n = 3]
ModernMethodArgs(member) ==
  [NoArgs EXCEPT !.ctx = Some([kind |-> "method", name |-> Some(member)]), !.n = 2]
ModernFieldArgs(member) ==
  [NoArgs EXCEPT !.ctx = Some([kind |-> "field", name |-> Some(member)]), !.n = 2]
LegacyPropertyArgs(member) == [NoArgs EXCEPT !.target = "proto", !.key = Some(member), !.n = 2]
LegacyParamArgs(member, index) ==
  [NoArgs EXCEPT !.target = "proto", !.key = Some(member), !.index = Some(index), !.n = 3]

ClassArgs(c) == {LegacyClassArgs, ModernClassArgs(c)}
MethodArgs(members) ==
  {LegacyMethodArgs(member) : member \in members}
    \cup {ModernMethodArgs(member) : member \in members}

(***************************************************************************)
(* Router builder, class-router.ts:100-194.                                *)
(*                                                                         *)
(* An instance of a class has the methods "a" and "b", a method keyed by   *)
(* a symbol, and a data field "f" that is not callable.  A namespace name  *)
(* and a class name are sequences of characters, so that lower-casing the  *)
(* first character is computed.                                            *)
(***************************************************************************)
SymbolKey == "@@symbol"
Field_f == "f"
\* typeof key === 'string'
isStringKey(key) == key # SymbolKey
\* typeof instance[methodName] === 'function': the methods the controller
\* classes declare and those every object inherits; "f" is a data field and
\* any other name is not a member
InstanceMethods == {"a", "b", "constructor", "toString"}
isFunction(methodName) == methodName \in InstanceMethods

\* what a lookup on an empty object literal finds through Object.prototype
ObjectPrototypeKeys == {"constructor", "toString", "__proto__"}
\* !!record[key] for a record that started as {}
hasTruthy(record, key) == MapHas(record, key) \/ key \in ObjectPrototypeKeys

toLowerCase(ch) ==
  CASE ch = "U" -> "u" [] ch = "M" -> "m" [] ch = "R" -> "r" [] OTHER -> ch

\* class-router.ts:100-103
defaultRouterNameNoLower(ctorName) ==
  IF Len(ctorName) = 0 THEN <<"r", "o", "u", "t", "e", "r">> ELSE ctorName
defaultRouterName(ctorName) ==
  IF Len(ctorName) = 0 THEN <<"r", "o", "u", "t", "e", "r">>
  ELSE <<toLowerCase(Head(ctorName))>> \o Tail(ctorName)

\* class-router.ts:115-123: how the resolver calls the method
buildResolver(methodName, paramMeta) ==
  IF ~IsDef(paramMeta)
       \/ (~IsDef(Val(paramMeta).ctxIndex) /\ ~IsDef(Val(paramMeta).inputIndex))
    THEN [method |-> methodName, inject |-> None]
    ELSE [method |-> methodName, inject |-> paramMeta]

\* class-router.ts:116-123: the arguments the instance method receives when
\* the runtime calls the resolver with opts = {ctx, input}.  An argument is
\* None for undefined (a hole of args is spread as undefined).
resolverCallCtxLast(resolver, opts) ==
  IF ~IsDef(resolver.inject) THEN <<Some(opts)>>
  ELSE LET paramMeta == Val(resolver.inject)
           n == Max(IF IsDef(paramMeta.ctxIndex) THEN Val(paramMeta.ctxIndex) + 1 ELSE 0,
                    IF IsDef(paramMeta.inputIndex) THEN Val(paramMeta.inputIndex) + 1 ELSE 0)
       IN [j \in 1..n |->
             IF IsDef(paramMeta.ctxIndex) /\ j = Val(paramMeta.ctxIndex) + 1 THEN Some(opts.ctx)
             ELSE IF IsDef(paramMeta.inputIndex) /\ j = Val(paramMeta.inputIndex) + 1
               THEN Some(opts.input)
             ELSE None]
resolverCall(resolver, opts) ==
  IF ~IsDef(resolver.inject) THEN <<Some(opts)>>
  ELSE LET paramMeta == Val(resolver.inject)
           n == Max(IF IsDef(paramMeta.ctxIndex) THEN Val(paramMeta.ctxIndex) + 1 ELSE 0,
                    IF IsDef(paramMeta.inputIndex) THEN Val(paramMeta.inputIndex) + 1 ELSE 0)
           \* args[paramMeta.ctxIndex] = opts.ctx
           args1 == [j \in 1..n |->
                      IF IsDef(paramMeta.ctxIndex) /\ j = Val(paramMeta.ctxIndex) + 1
                        THEN Some(opts.ctx) ELSE None]
           \* args[paramMeta.inputIndex] = opts.input
       IN [j \in 1..n |->
             IF IsDef(paramMeta.inputIndex) /\ j = Val(paramMeta.inputIndex) + 1
               THEN Some(opts.input) ELSE args1[j]]

\* class-router.ts:138-153
buildProcedureDefaultMutation(methodName, classMeta, methodMeta, paramMeta) ==
  LET combinedMeta == Spread(Val(Coalesce(classMeta.meta, Some({}))),
                             Val(Coalesce(methodMeta.meta, Some({}))))
  IN [use |-> Val(Coalesce(classMeta.middlewares, Some(<<>>)))
                \o Val(Coalesce(methodMeta.middlewares, Some(<<>>))),
      meta |-> IF combinedMeta # {} THEN Some(combinedMeta) ELSE None,
      input |-> methodMeta.input,
      output |-> methodMeta.output,
      resolver |-> buildResolver(methodName, paramMeta),
      kind |-> IF methodMeta.kind = Some("subscription") THEN "subscription" ELSE "mutation"]
buildProcedure(methodName, classMeta, methodMeta, paramMeta) ==
  LET combinedMeta == Spread(Val(Coalesce(classMeta.meta, Some({}))),
                             Val(Coalesce(methodMeta.meta, Some({}))))
      kind == Val(Coalesce(methodMeta.kind, Some("query")))
  IN [use |-> Val(Coalesce(classMeta.middlewares, Some(<<>>)))
                \o Val(Coalesce(methodMeta.middlewares, Some(<<>>))),
      meta |-> IF combinedMeta # {} THEN Some(combinedMeta) ELSE None,
      input |-> methodMeta.input,
      output |-> methodMeta.output,
      resolver |-> buildResolver(methodName, paramMeta),
      kind |-> IF kind = "mutation" THEN "mutation"
               ELSE IF kind = "subscription" THEN "subscription"
               ELSE "query"]

\* class-router.ts:177-186: the loop over the declared methods, from the
\* i-th key on, with the record built so far
RECURSIVE routeLoop(_, _, _, _)
routeLoop(store, keys, i, record) ==
  IF i > Len(keys) THEN [error |-> None, record |-> record]
  ELSE LET key == keys[i]
           methodMeta == MapGet(Val(store.methods), key)
           routeName == Val(Coalesce(methodMeta.name, Some(key)))
       IN IF ~isStringKey(key) THEN routeLoop(store, keys, i + 1, record)
          ELSE IF hasTruthy(record, routeName)
            THEN [error |-> Some(<<"Duplicate tRPC route name", routeName>>), record |-> <<>>]
          ELSE IF ~isFunction(key)
            THEN [error |-> Some(<<"is not a function", key>>), record |-> <<>>]
          ELSE routeLoop(store, keys, i + 1,
                 MapSet(record, routeName,
                   buildProcedure(key, Val(Coalesce(store.class, Some(EmptyClassMeta))),
                                  methodMeta, MapGetOpt(store.params, key))))

\* class-router.ts:171-193
controllerToRouterFirstWins(leg, std) ==
  LET store == readStore(leg, std)
      keys == ownKeys(store.methods)
      names == [i \in DOMAIN keys |->
                  Val(Coalesce(MapGet(Val(store.methods), keys[i]).name, Some(keys[i])))]
      first == {i \in DOMAIN keys : \A j \in 1..(i - 1) : names[j] # names[i]}
      kept == SelectSeq(keys, LAMBDA key : \E i \in first : keys[i] = key /\ isStringKey(key))
      loop == routeLoop(store, kept, 1, <<>>)
  IN [error |-> loop.error, name |-> Field(store.class, "name"), record |-> loop.record]
controllerToRouter(leg, std) ==
  LET store == readStore(leg, std)
      loop == routeLoop(store, ownKeys(store.methods), 1, <<>>)
  IN [error |-> loop.error, name |-> Field(store.class, "name"), record |-> loop.record]

\* class-router.ts:214 and 223: the router of one controller is built
BuildRouterAllocating(c) ==
  /\ built' = Some(controllerToRouter(lookup(legacy, c), lookup(standard, c)))
  /\ legacy' = [legacy EXCEPT ![holderOf(legacy, c)] = ensureStore(lookup(legacy, c))]
  /\ UNCHANGED <<rateLimitVars, guard, standard, applied, lowVars, aggregate, callVars, historyVars, burst>>
BuildRouter(c) ==
  /\ built' = Some(controllerToRouter(lookup(legacy, c), lookup(standard, c)))
  /\ UNCHANGED <<rateLimitVars, guard, legacy, standard, applied, lowVars, aggregate, callVars, historyVars, burst>>

\* the runtime calls the resolver of the i-th route of the router built last
CallResolver(i, opts) ==
  /\ IsDef(built)
  /\ ~IsDef(Val(built).error)
  /\ i \in DOMAIN Val(built).record
  /\ called' = Some([route |-> Val(built).record[i].k,
                     method |-> Val(built).record[i].v.resolver.method,
                     opts |-> opts,
                     args |-> resolverCall(Val(built).record[i].v.resolver, opts)])
  /\ UNCHANGED <<rateLimitVars, guard, metaVars, lowVars, historyVars, burst>>

(***************************************************************************)
(* makeDecorators, decorators.ts:265-396.  Each call has its own META_KEY, *)
(* under which one class holds a legacy map (ctor[META_KEY]) and a modern  *)
(* map (ctor[Symbol.metadata][META_KEY]) from method name to               *)
(* {kind, input, use, meta}.  The class has the methods "one" and "two".   *)
(***************************************************************************)
LowMethods == {"one", "two"}

\* decorators.ts:284-285 and 293-294: byName[name] ??= {}, kind defaults to 'query'
lowEnsure(byName, name) ==
  LET map == Val(Coalesce(byName, Some(<<>>)))
  IN IF MapHas(map, name) THEN map
     ELSE MapSet(map, name, [kind |-> Some("query"), input |-> None, use |-> None, meta |-> None])

\* decorators.ts:298-303 with 281-296: the slot getMeta resolves and the
\* name it registers, or "none" when the target has no constructor
getMeta(args) ==
  IF isDecoratorContext(args)
    THEN [slot |-> "standard", name |-> Val(Coalesce(Val(args.ctx).name, Some("undefined")))]
    ELSE IF ~hasCtor(args) THEN [slot |-> "none", name |-> ""]
    ELSE [slot |-> "legacy", name |-> Val(Coalesce(args.key, Some("undefined")))]

\* decorators.ts:305-320
applyOpts(meta, opts) ==
  IF ~IsDef(opts) THEN meta
  ELSE [meta EXCEPT
          !.input = IF IsDef(Val(opts).input) THEN Val(opts).input ELSE @,
          !.use = IF IsDef(Val(opts).use)
                    THEN Some(Val(Coalesce(@, Some(<<>>))) \o Val(Val(opts).use))
                    ELSE @,
          !.meta = IF IsDef(Val(opts).meta)
                     THEN Some(Spread(Val(Coalesce(@, Some({}))), Val(Val(opts).meta)))
                     ELSE @]

\* the marker's assignment to the meta getMeta returned
lowApply(marker, meta) ==
  CASE marker.m \in {"query", "mutation"} ->
         applyOpts([meta EXCEPT !.kind = Some(marker.m)], marker.opts)
    [] marker.m = "input" -> [meta EXCEPT !.input = Some(marker.schema)]
    [] marker.m = "use" -> [meta EXCEPT !.use = Some(Val(Coalesce(@, Some(<<>>))) \o <<marker.mw>>)]
    [] marker.m = "meta" ->
         [meta EXCEPT !.meta = Some(Spread(Val(Coalesce(@, Some({}))), marker.extra))]

\* one application of a marker of decorator set d
LowDecorate(d, args, marker) ==
  LET got == getMeta(args)
      map == lowEnsure(low[d][got.slot], got.name)
  IN /\ applied < MaxDecorations
     /\ \A e \in DecoratorSets : lowBuilt[e] = None
     /\ applied' = applied + 1
     /\ low' = IF got.slot = "none" THEN low
               ELSE [low EXCEPT ![d][got.slot] =
                       Some(MapSet(map, got.name, lowApply(marker, MapGet(map, got.name))))]
     /\ annotated' = [annotated EXCEPT ![d] = @ \cup {got.name}]
     /\ UNCHANGED <<rateLimitVars, guard, legacy, standard, built, lowBuilt, aggregate, callVars, historyVars, burst>>

\* decorators.ts:322-334
makeDecorators_query(d, opts, args) == LowDecorate(d, args, [m |-> "query", opts |-> opts])
\* decorators.ts:336-348
makeDecorators_mutation(d, opts, args) == LowDecorate(d, args, [m |-> "mutation", opts |-> opts])
\* decorators.ts:350-355
makeDecorators_input(d, schema, args) == LowDecorate(d, args, [m |-> "input", schema |-> schema])
\* decorators.ts:357-362
makeDecorators_use(d, mw, args) == LowDecorate(d, args, [m |-> "use", mw |-> mw])
\* decorators.ts:364-369
makeDecorators_meta(d, extra, args) == LowDecorate(d, args, [m |-> "meta", extra |-> extra])

\* decorators.ts:371-393: the record handed to t.router
makeDecorators_controllerToRouter(holders) ==
  LET metas == Coalesce(holders.standard, holders.legacy)
  IN IF ~IsDef(metas) THEN <<>>
     ELSE [i \in DOMAIN Val(metas) |->
             [k |-> Val(metas)[i].k,
              v |-> [use |-> Val(Coalesce(Val(metas)[i].v.use, Some(<<>>))),
                     meta |-> Val(metas)[i].v.meta,
                     input |-> Val(metas)[i].v.input,
                     kind |-> IF Val(metas)[i].v.kind = Some("mutation")
                                THEN "mutation" ELSE "query"]]]

\* d.controllerToRouter(new Ctrl())
LowBuildRouter(d) ==
  /\ lowBuilt' = [lowBuilt EXCEPT ![d] = Some(makeDecorators_controllerToRouter(low[d]))]
  /\ UNCHANGED <<rateLimitVars, guard, metaVars, low, annotated, callVars, historyVars, burst>>

(***************************************************************************)
(* Aggregate router assembly, class-router.ts:196-232.  A controller is    *)
(* an instance, given here by its class; a map of controllers is the       *)
(* sequence of its <<key, controller>> entries.                            *)
(***************************************************************************)
ObjectPrototypeNamespaces == {<<"c", "o", "n", "s", "t", "r", "u", "c", "t", "o", "r">>}
\* !!routers[key] for a routers object that started as {}
hasTruthyNamespace(routers, key) == MapHas(routers, key) \/ key \in ObjectPrototypeNamespaces

\* class-router.ts:213-220; one[c] is what controllerToRouter(t, controller)
\* returns or throws for a controller of class c
RECURSIVE listLoop(_, _, _, _)
listLoop(one, controllers, i, routers) ==
  IF i > Len(controllers) THEN [error |-> None, routers |-> routers]
  ELSE LET c == controllers[i]
           key == Val(Coalesce(one[c].name, Some(defaultRouterName(constructorName(c)))))
       IN IF IsDef(one[c].error) THEN [error |-> one[c].error, routers |-> <<>>]
          ELSE IF hasTruthyNamespace(routers, key)
            THEN [error |-> Some(<<"Duplicate controller router name", key>>), routers |-> <<>>]
          ELSE listLoop(one, controllers, i + 1, MapSet(routers, key, one[c].record))

\* class-router.ts:222-225
RECURSIVE mapLoop(_, _, _, _)
mapLoop(one, entries, i, routers) ==
  IF i > Len(entries) THEN [error |-> None, routers |-> routers]
  ELSE LET c == entries[i][2]
       IN IF IsDef(one[c].error) THEN [error |-> one[c].error, routers |-> <<>>]
          ELSE mapLoop(one, entries, i + 1, MapSet(routers, entries[i][1], one[c].record))

\* class-router.ts:208-231; t.router(routers) is handed the routers object
createClassRouter(leg, std, isArray, controllers) ==
  LET one == [c \in AllClasses |-> controllerToRouter(lookup(leg, c), lookup(std, c))]
      loop == IF isArray THEN listLoop(one, controllers, 1, <<>>)
              ELSE mapLoop(one, controllers, 1, <<>>)
  IN [error |-> loop.error, router |-> MapKeys(loop.routers), routers |-> loop.routers]

\* createClassRouter({ t, controllers }) with a list; the model follows one
\* call of createClassRouter
CreateClassRouterFromList(controllers) ==
  /\ aggregate = None
  /\ aggregate' = Some([isArray |-> TRUE, controllers |-> controllers,
                        result |-> createClassRouter(legacy, standard, TRUE, controllers)])
  /\ UNCHANGED <<rateLimitVars, guard, legacy, standard, applied, built, lowVars, callVars, historyVars, burst>>

\* createClassRouter({ t, controllers }) with a map
CreateClassRouterFromMap(entries) ==
  /\ aggregate = None
  /\ aggregate' = Some([isArray |-> FALSE, controllers |-> entries,
                        result |-> createClassRouter(legacy, standard, FALSE, entries)])
  /\ UNCHANGED <<rateLimitVars, guard, legacy, standard, applied, built, lowVars, callVars, historyVars, burst>>

(***************************************************************************)
(* Specifications.                                                         *)
(***************************************************************************)
Init ==
  /\ clock = 0
  /\ rateLimitStore = [k \in WindowKeys |-> None]
  /\ rl = [r \in Reqs |-> [pc |-> "idle", key |-> None]]
  /\ windowLog = [k \in WindowKeys |-> <<>>]
  /\ lastCall = None
  /\ guard = [r \in Reqs |-> GuardIdle]
  /\ legacy = [c \in AllClasses |-> None]
  /\ standard = [c \in AllClasses |-> None]
  /\ applied = 0
  /\ built = None
  /\ low = [d \in DecoratorSets |-> [legacy |-> None, standard |-> None]]
  /\ annotated = [d \in DecoratorSets |-> {}]
  /\ lowBuilt = [d \in DecoratorSets |-> None]
  /\ aggregate = None
  /\ called = None
  /\ lastApp = None
  /\ segregated = [c \in AllClasses |-> [legacy |-> [legacy |-> None, standard |-> None],
                                         standard |-> [legacy |-> None, standard |-> None]]]
  /\ unitsLog = <<>>
  /\ burst = [units |-> None, pos |-> 0, served |-> 0, admittedAt |-> <<<<>>, <<>>>>]

NextRateLimit ==
  \/ \E r \in Reqs, options \in RateLimitOptions, path \in Paths, keyPart \in KeyParts :
       RateLimitInvoke(r, options, path, keyPart)
  \/ \E r \in Reqs : RateLimitNextReturns(r)
  \/ Tick

SpecRateLimit == Init /\ [][NextRateLimit]_vars

NextGuard ==
  \/ \E r \in Reqs : GuardInvoke(r)
  \/ \E r \in Reqs, result \in GuardResults : GuardSettles(r, result)
  \/ \E r \in Reqs : GuardRejects(r)
  \/ \E r \in Reqs : GuardChainRuns(r)

SpecGuard == Init /\ [][NextGuard]_vars

(***************************************************************************)
(* The annotations of one class through both mechanisms, then its router.  *)
(***************************************************************************)
Members == {"a", "b"}
RouteNames == {None, Some("x")}
NamespaceNames == {None, Some(<<"u">>), Some(<<"m">>)}
\* UseZod(input, output?)
SchemaPairs == {<<"z1", None>>, <<"z2", Some("z1")>>, <<"z1", Some("z2")>>}
MiddlewareLists ==
  {<<>>, <<<<"unit", "m1">>>>, <<<<"array", <<"m2", "m3">>>>, <<"falsy">>>>}
MetaBags == {{<<"k", "1">>}, {<<"k", "2">>, <<"j", "1">>}}
ParamArgs == {LegacyParamArgs(member, i) : member \in Members, i \in 0..MaxParamIndex}
AnyArgs(c) == ClassArgs(c) \cup MethodArgs(Members)

NextMeta ==
  \/ \E c \in {"Users"} : \E name \in NamespaceNames, args \in ClassArgs(c) : Router(c, name, args)
  \/ \E c \in {"Users"} : \E name \in RouteNames, args \in MethodArgs(Members) : Query(c, name, args)
  \/ \E c \in {"Users"} : \E name \in RouteNames, args \in MethodArgs(Members) : Mutation(c, name, args)
  \/ \E c \in {"Users"} : \E name \in RouteNames, args \in MethodArgs(Members) :
       Subscription(c, name, args)
  \/ \E c \in {"Users"} : \E schemas \in SchemaPairs, args \in MethodArgs(Members) :
       UseZod(c, schemas[1], schemas[2], args)
  \/ \E c \in {"Users"} : \E middlewares \in MiddlewareLists, args \in AnyArgs(c) :
       UseMiddlewares(c, middlewares, args)
  \/ \E c \in {"Users"} : \E args \in AnyArgs(c) : Auth(c, args)
  \/ \E c \in {"Users"} : \E args \in AnyArgs(c) : RateLimit(c, args)
  \/ \E c \in {"Users"} : \E meta \in MetaBags, args \in AnyArgs(c) : Meta(c, meta, args)
  \/ \E c \in {"Users"} : \E args \in ParamArgs : Ctx(c, args)
  \/ \E c \in {"Users"} : \E args \in ParamArgs : Input(c, args)
  \/ \E c \in {"Users"} : BuildRouter(c)

SpecMeta == Init /\ [][NextMeta]_vars

(***************************************************************************)
(* Two makeDecorators calls whose markers annotate one class.              *)
(***************************************************************************)
LowOpts ==
  {None,
   Some([input |-> Some("z1"), use |-> None, meta |-> None]),
   Some([input |-> None, use |-> Some(<<"m1">>), meta |-> Some({<<"k", "1">>})])}

NextRoots ==
  \/ \E d \in DecoratorSets, opts \in LowOpts, args \in MethodArgs(LowMethods) :
       makeDecorators_query(d, opts, args)
  \/ \E d \in DecoratorSets, opts \in LowOpts, args \in MethodArgs(LowMethods) :
       makeDecorators_mutation(d, opts, args)
  \/ \E d \in DecoratorSets, args \in MethodArgs(LowMethods) : makeDecorators_input(d, "z2", args)
  \/ \E d \in DecoratorSets, args \in MethodArgs(LowMethods) : makeDecorators_use(d, "m2", args)
  \/ \E d \in DecoratorSets, args \in MethodArgs(LowMethods) :
       makeDecorators_meta(d, {<<"k", "2">>}, args)
  \/ \E d \in DecoratorSets : LowBuildRouter(d)

SpecRoots == Init /\ [][NextRoots]_vars

(***************************************************************************)
(* One class whose members get kind markers with route names, then its     *)
(* router.                                                                 *)
(***************************************************************************)
RouterRouteNames == {None, Some("x"), Some("a")}
RouterArgs ==
  MethodArgs({"a", "b", SymbolKey}) \cup {ModernFieldArgs(Field_f), LegacyPropertyArgs(Field_f)}

NextRouter ==
  \/ \E name \in RouterRouteNames, args \in RouterArgs : Query("Users", name, args)
  \/ \E name \in RouterRouteNames, args \in RouterArgs : Mutation("Users", name, args)
  \/ BuildRouter("Users")

SpecRouter == Init /\ [][NextRouter]_vars

(***************************************************************************)
(* Several controller classes, then the aggregate router.                  *)
(***************************************************************************)
UsersChars == <<"u", "s", "e", "r", "s">>
AggregateNamespaces == {None, Some(UsersChars), Some(<<"m">>)}
MapKeyChoices == {UsersChars, <<"x">>}
ControllerLists ==
  UNION {[1..n -> Classes] : n \in 0..MaxControllers}
ControllerMaps ==
  {<<>>} \cup {<<<<k, c>>>> : k \in MapKeyChoices, c \in Classes}
    \cup {<<<<UsersChars, c1>>, <<(<<"x">>), c2>>>> : c1 \in Classes, c2 \in Classes}

NextAggregate ==
  \/ \E c \in Classes : \E name \in AggregateNamespaces, args \in ClassArgs(c) :
       Router(c, name, args)
  \/ \E c \in Classes, member \in {"a", "b"} : Query(c, Some("x"), LegacyMethodArgs(member))
  \/ \E c \in Classes : Mutation(c, None, ModernFieldArgs(Field_f))
  \/ \E controllers \in ControllerLists : CreateClassRouterFromList(controllers)
  \/ \E entries \in ControllerMaps : CreateClassRouterFromMap(entries)

SpecAggregate == Init /\ [][NextAggregate]_vars

(***************************************************************************)
(* One class whose methods get parameter and kind markers, then its router *)
(* and calls of its resolvers.                                             *)
(***************************************************************************)
ResolverOpts == {[ctx |-> "ctx", input |-> "input"]}
\* parameters of the methods "a" and "b" and of a method with a symbol key
InjectParamArgs == ParamArgs \cup {LegacyParamArgs(SymbolKey, 0)}

NextInject ==
  \/ \E args \in InjectParamArgs : Ctx("Users", args)
  \/ \E args \in InjectParamArgs : Input("Users", args)
  \/ \E args \in MethodArgs(Members) : Query("Users", None, args)
  \/ \E args \in MethodArgs(Members) : Mutation("Users", None, args)
  \/ \E args \in MethodArgs(Members) : Subscription("Users", None, args)
  \/ BuildRouter("Users")
  \/ \E i \in 1..Cardinality(Members), opts \in ResolverOpts : CallResolver(i, opts)

SpecInject == Init /\ [][NextInject]_vars

(***************************************************************************)
(* Every exported marker applied to every kind of declaration of one       *)
(* class, in both call shapes.                                             *)
(***************************************************************************)
\* a modern context of a method without a name; a legacy call without a
\* constructor; a legacy call on a constructor parameter (no property key)
ModernNamelessArgs == [NoArgs EXCEPT !.ctx = Some([kind |-> "method", name |-> None]), !.n = 2]
LegacyNoCtorArgs == [NoArgs EXCEPT !.key = Some("a"), !.n = 3]
LegacyCtorParamArgs == [NoArgs EXCEPT !.target = "ctor", !.index = Some(0), !.n = 3]
TargetArgs ==
  ClassArgs("Users") \cup MethodArgs({"a"}) \cup {LegacyParamArgs("a", 0)}
    \cup {NoArgs, ModernNamelessArgs, LegacyNoCtorArgs, LegacyCtorParamArgs}
Markers ==
  {[m |-> "Router", name |-> Some(<<"u">>)],
   [m |-> "Query", kind |-> "query", name |-> None],
   [m |-> "Mutation", kind |-> "mutation", name |-> Some("x")],
   [m |-> "Subscription", kind |-> "subscription", name |-> None],
   [m |-> "UseZod", input |-> Some("z1"), output |-> None],
   [m |-> "UseMiddlewares", middlewares |-> <<<<"unit", "m1">>>>],
   [m |-> "Auth", mw |-> "auth"],
   [m |-> "RateLimit", mw |-> "rateLimit"],
   [m |-> "Meta", meta |-> {<<"k", "1">>}],
   [m |-> "Ctx"],
   [m |-> "Input"]}

NextTargets ==
  \/ \E marker \in Markers, args \in TargetArgs : Annotate("Users", marker, args)
  \/ BuildRouter("Users")

SpecTargets == Init /\ [][NextTargets]_vars

(***************************************************************************)
(* Middleware markers on one class and its methods in both call shapes,    *)
(* then its router.                                                        *)
(***************************************************************************)
ChainMarkers ==
  {[m |-> "Query", kind |-> "query", name |-> None],
   [m |-> "UseMiddlewares", middlewares |-> <<<<"unit", "m1">>>>],
   [m |-> "UseMiddlewares", middlewares |-> <<<<"array", <<"m2", "m3">>>>, <<"falsy">>, <<"unit", "m4">>>>],
   [m |-> "Auth", mw |-> "auth"],
   [m |-> "RateLimit", mw |-> "rateLimit"]}

NextChain ==
  \/ \E marker \in ChainMarkers, args \in AnyArgs("Users") : Annotate("Users", marker, args)
  \/ BuildRouter("Users")

SpecChain == Init /\ [][NextChain]_vars

(***************************************************************************)
(* A class and a subclass of it, annotated in both call shapes, and their  *)
(* routers.                                                                *)
(***************************************************************************)
InheritMarkers ==
  {[m |-> "Router", name |-> Some(<<"u">>)],
   [m |-> "Query", kind |-> "query", name |-> None],
   [m |-> "Mutation", kind |-> "mutation", name |-> Some("x")],
   [m |-> "Auth", mw |-> "auth"],
   [m |-> "Ctx"]}
InheritArgs(c) == ClassArgs(c) \cup MethodArgs(Members) \cup {LegacyParamArgs("a", 0)}

NextInherit ==
  \/ \E c \in {"Users", "Admin"} : \E marker \in InheritMarkers, args \in InheritArgs(c) :
       Annotate(c, marker, args)
  \/ \E c \in {"Users", "Admin"} : BuildRouter(c)

SpecInherit == Init /\ [][NextInherit]_vars

(***************************************************************************)
(* Several controller classes, their aggregate router and the router of    *)
(* one of them, built in either order.                                     *)
(***************************************************************************)
NextRebuild ==
  \/ NextAggregate
  \/ BuildRouter("Users")

SpecRebuild == Init /\ [][NextRebuild]_vars

(***************************************************************************)
(* One procedure with a class-level and a method-level RateLimit marker.   *)
(* buildProcedure puts the class-level unit first in the chain             *)
(* (class-router.ts:139-144); both units resolve the same path and, with   *)
(* no key function, the same key 'global' (decorators.ts:145-146).         *)
(***************************************************************************)
BurstOptions == [points : 1..MaxPoints, durationSec : {1, MaxBurstSec}]

\* decorators.ts:218-228: RateLimit(classOptions) on the class,
\* RateLimit(methodOptions) on its method
RateLimitAttach(classOptions, methodOptions) ==
  /\ burst.units = None
  /\ burst' = [burst EXCEPT !.units = Some(<<classOptions, methodOptions>>)]
  /\ UNCHANGED <<rateLimitVars, guard, metaVars, lowVars, callVars, historyVars>>

\* decorators.ts:144-158: unit u of the chain runs for the request in
\* flight; u = 1 takes a new request, u = 2 runs when unit 1 called next()
RateLimitChainStep(u) ==
  LET options == Val(burst.units)[u]
      key == windowKey(Some("a"), None)
      entry == rateLimitStore[key]
      ok == admits(options, entry, clock)
  IN /\ IsDef(burst.units)
     /\ burst.pos = u - 1
     /\ u = 1 => burst.served < MaxBurstReqs
     /\ rateLimitStore' = [rateLimitStore EXCEPT ![key] = Some(entryAfter(options, entry, clock))]
     /\ burst' = [burst EXCEPT !.pos = IF ok /\ u = 1 THEN 1 ELSE 0,
                               !.served = IF u = 1 THEN @ + 1 ELSE @,
                               !.admittedAt[u] = IF ok THEN Append(@, clock) ELSE @]
     /\ UNCHANGED <<clock, rl, windowLog, lastCall, guard, metaVars, lowVars, callVars, historyVars>>

\* decorators.ts:147: a second passes on the clock Date.now() reads
Elapse ==
  /\ clock < (MaxBurstSec - 1) * 1000
  /\ clock' = clock + 1000
  /\ UNCHANGED <<rateLimitStore, rl, windowLog, lastCall, guard, metaVars, lowVars, callVars, historyVars, burst>>

NextBurst ==
  \/ \E classOptions, methodOptions \in BurstOptions : RateLimitAttach(classOptions, methodOptions)
  \/ \E u \in 1..2 : RateLimitChainStep(u)
  \/ Elapse

SpecBurst == Init /\ [][NextBurst]_vars

(***************************************************************************)
(* Classes whose route names and namespaces are names every plain object   *)
(* inherits, then their routers.                                           *)
(***************************************************************************)
InheritedRouteNames == {None, Some("x"), Some("toString"), Some("constructor")}
InheritedNamespaces == {None, Some(<<"c", "o", "n", "s", "t", "r", "u", "c", "t", "o", "r">>)}

NextNames ==
  \/ \E name \in InheritedRouteNames, member \in Members :
       Query("Users", name, LegacyMethodArgs(member))
  \/ \E c \in Classes, name \in InheritedNamespaces : Router(c, name, LegacyClassArgs)
  \/ BuildRouter("Users")
  \/ \E controllers \in ControllerLists : CreateClassRouterFromList(controllers)

SpecNames == Init /\ [][NextNames]_vars

\* The event loop keeps running pending work: a step that can be taken is
\* eventually taken.
SpecRateLimitFair == SpecRateLimit /\ WF_vars(NextRateLimit)

(***************************************************************************)
(* Claims about the rate limiter.                                          *)
(***************************************************************************)
AdmittedIn(log) == {i \in DOMAIN log : log[i].admitted}
SamePoints(log, P) == \A i \in DOMAIN log : log[i].points = P

\* C1: among the invocations of a limiter with points = P >= 1 that fall
\* in one window of one window key, exactly the first P are admitted and
\* every later one is rejected with TOO_MANY_REQUESTS.
C1_FirstPAdmitted ==
  \A k \in WindowKeys : \A P \in 1..MaxPoints :
    SamePoints(windowLog[k], P) =>
      \A i \in DOMAIN windowLog[k] :
        /\ windowLog[k][i].admitted <=> i <= P
        /\ ~windowLog[k][i].admitted => rl[windowLog[k][i].req].pc = "TOO_MANY_REQUESTS"

\* P + 1 calls in one window: P admits followed by one rejection.
C1_Witness ==
  \E k \in WindowKeys :
    /\ Len(windowLog[k]) = 3
    /\ SamePoints(windowLog[k], 2)
    /\ AdmittedIn(windowLog[k]) = {1, 2}
    /\ rl[windowLog[k][3].req].pc = "TOO_MANY_REQUESTS"

\* C2: an invocation that finds no entry, or finds one with now >= resetAt,
\* is admitted and leaves {count: 1, resetAt: now + max(1, durationSec) * 1000};
\* every other invocation, admitted or rejected, adds exactly 1 to count and
\* leaves resetAt as it was.
C2_WindowLifecycle ==
  IsDef(lastCall) =>
    LET c == Val(lastCall)
        e == Val(rateLimitStore[c.key])
        sec == IF c.options.durationSec < 1 THEN 1 ELSE c.options.durationSec
    IN IF ~IsDef(c.found) \/ c.now >= Val(c.found).resetAt
         THEN c.admitted /\ e.count = 1 /\ e.resetAt = c.now + sec * 1000
         ELSE e.count = Val(c.found).count + 1 /\ e.resetAt = Val(c.found).resetAt

\* A rejected call inside a window whose length was clamped from 0 s to 1 s,
\* and, in another state, a call exactly at resetAt that restarted the window.
C2_Witness ==
  /\ IsDef(lastCall)
  /\ IsDef(Val(lastCall).found)
  /\ Val(lastCall).now = Val(Val(lastCall).found).resetAt
  /\ Val(lastCall).options.durationSec = 0
  /\ Val(Val(lastCall).found).count > Val(lastCall).options.points
  /\ Val(rateLimitStore[Val(lastCall).key]).count = 1

\* C3 as stated: requests racing inside one window get more than `points`
\* of them admitted.  The claim says that such an execution exists; as a
\* property of the fair executions it reads "over-admission eventually
\* happens", and C3_AtMostPointsAdmitted below denies that any execution
\* reaches it.
OverAdmitted(k) ==
  \E P \in 1..MaxPoints :
    /\ \A i \in DOMAIN windowLog[k] : windowLog[k][i].points <= P
    /\ Cardinality(AdmittedIn(windowLog[k])) > P
C4_GuardOutcome ==
  \A r \in Reqs :
    /\ guard[r].ran => guard[r].nextCalled
    /\ ~IsDef(guard[r].result) => ~guard[r].nextCalled
    /\ IsDef(guard[r].result) =>
         LET res == Val(guard[r].result) IN
         /\ guard[r].nextCalled <=> res = JsTrue
         /\ res = JsTrue => guard[r].pc \in {"next", "resolved"}
         /\ res = JsString("FORBIDDEN") => guard[r].pc = "FORBIDDEN"
         /\ res = JsString("UNAUTHORIZED") => guard[r].pc = "UNAUTHORIZED"
         /\ res \notin {JsTrue, JsString("FORBIDDEN")} => guard[r].pc \notin {"FORBIDDEN"}
         /\ res \notin {JsTrue, JsString("FORBIDDEN"), JsString("UNAUTHORIZED")}
              => guard[r].pc = "UNAUTHORIZED"

\* One request let through and run, one stopped by a truthy value that is
\* not the boolean true, one stopped with FORBIDDEN.
C4_Witness ==
  \E a, b, c \in Reqs :
    /\ guard[a].pc = "resolved" /\ guard[a].ran
    /\ guard[b].result = Some(JsString("true")) /\ guard[b].pc = "UNAUTHORIZED"
    /\ guard[c].result = Some(JsString("FORBIDDEN")) /\ guard[c].pc = "FORBIDDEN"

(***************************************************************************)
(* Claims about the merge.                                                 *)
(***************************************************************************)
View(c) == readStore(lookup(legacy, c), lookup(standard, c))
SingleMechanism(c) == ~IsDef(legacy[c]) \/ ~IsDef(standard[c])
\* the store of the one mechanism that was used (an empty store if none was)
OwnStore(c) == Val(Coalesce(legacy[c], Coalesce(standard[c], Some(EmptyStore))))

\* an empty middleware list reported as absent
DropEmptyList(meta) ==
  [meta EXCEPT !.middlewares = IF IsDef(@) /\ Len(Val(@)) = 0 THEN None ELSE @]
DropEmptyLists(store) ==
  [class |-> IF IsDef(store.class) THEN Some(DropEmptyList(Val(store.class))) ELSE None,
   methods |-> IF IsDef(store.methods)
                 THEN Some([i \in DOMAIN Val(store.methods) |->
                              [k |-> Val(store.methods)[i].k,
                               v |-> DropEmptyList(Val(store.methods)[i].v)]])
                 ELSE None,
   params |-> store.params]

\* C5 as stated: with one mechanism only, the reconciled view equals that
\* mechanism's own store, middleware lists included, an empty list too.
C5_ViewEqualsOwnStore ==
  \A c \in Classes : SingleMechanism(c) => View(c) = OwnStore(c)

\* C5 (amended): with one mechanism only, the reconciled view equals that
\* mechanism's own store (class meta, method and parameter names, and per
\* record name, kind, validators, middleware list and annotation bag),
\* except that an empty middleware list is reported as absent.
C5_ViewEqualsOwnStoreUpToEmptyLists ==
  \A c \in Classes : SingleMechanism(c) => View(c) = DropEmptyLists(OwnStore(c))

\* Only the legacy store is populated; it holds a class-level empty
\* middleware list, an annotation bag and a method with a kind.
C5_Witness ==
  \E c \in Classes :
    /\ IsDef(legacy[c]) /\ ~IsDef(standard[c])
    /\ IsDef(Val(legacy[c]).class)
    /\ Val(Val(legacy[c]).class).middlewares = Some(<<>>)
    /\ IsDef(Val(Val(legacy[c]).class).meta)
    /\ \E key \in MapKeySet(Val(Coalesce(Val(legacy[c]).methods, Some(<<>>)))) :
         IsDef(MapGet(Val(Val(legacy[c]).methods), key).kind)

InBoth(c, part) ==
  IF IsDef(legacy[c]) /\ IsDef(standard[c])
    THEN MapKeySet(Val(Coalesce(Val(legacy[c])[part], Some(<<>>))))
           \cap MapKeySet(Val(Coalesce(Val(standard[c])[part], Some(<<>>))))
    ELSE {}
ModernElseLegacy(c, part, key, f) ==
  LET modern == MapGet(Val(Val(standard[c])[part]), key)[f]
      old == MapGet(Val(Val(legacy[c])[part]), key)[f]
  IN IF IsDef(modern) THEN modern ELSE old

\* C6: for a class, method or parameter name present in both stores, each
\* scalar field of the merged record is the modern store's value when the
\* modern store defines it and the legacy store's value otherwise, field by
\* field.
C6_ScalarPrecedence ==
  \A c \in Classes :
    /\ (IsDef(legacy[c]) /\ IsDef(standard[c])
          /\ IsDef(Val(legacy[c]).class) /\ IsDef(Val(standard[c]).class)) =>
         Val(View(c).class).name =
           (IF IsDef(Val(Val(standard[c]).class).name)
              THEN Val(Val(standard[c]).class).name
              ELSE Val(Val(legacy[c]).class).name)
    /\ \A key \in InBoth(c, "methods") : \A f \in {"kind", "name", "input", "output"} :
         MapGet(Val(View(c).methods), key)[f] = ModernElseLegacy(c, "methods", key, f)
    /\ \A key \in InBoth(c, "params") : \A f \in {"ctxIndex", "inputIndex"} :
         MapGet(Val(View(c).params), key)[f] = ModernElseLegacy(c, "params", key, f)

\* One method annotated through both mechanisms with different kinds, the
\* route name set on the legacy side only: the merged record takes the
\* kind from the modern store and the name from the legacy store.
C6_Witness ==
  \E c \in Classes : \E key \in InBoth(c, "methods") :
    LET old == MapGet(Val(Val(legacy[c]).methods), key)
        modern == MapGet(Val(Val(standard[c]).methods), key)
        merged == MapGet(Val(View(c).methods), key)
    IN /\ IsDef(old.kind) /\ IsDef(modern.kind) /\ old.kind # modern.kind
       /\ IsDef(old.name) /\ ~IsDef(modern.name)
       /\ merged.kind = modern.kind /\ merged.name = old.name

MethodKeys(store) == MapKeySet(Val(Coalesce(Field(store, "methods"), Some(<<>>))))
DisjointMethods(c) == MethodKeys(legacy[c]) \cap MethodKeys(standard[c]) = {}
Declared(c, key) ==
  IF key \in MethodKeys(legacy[c])
    THEN MapGet(Val(Val(legacy[c]).methods), key)
    ELSE MapGet(Val(Val(standard[c]).methods), key)

\* C7 as stated: when the two stores declare disjoint sets of methods, the
\* merged method map has the union of the keys and each merged record has
\* exactly the fields of the store that declared it.
C7_DisjointUnionExact ==
  \A c \in Classes : DisjointMethods(c) =>
    /\ MethodKeys(Some(View(c))) = MethodKeys(legacy[c]) \cup MethodKeys(standard[c])
    /\ \A key \in MethodKeys(Some(View(c))) :
         MapGet(Val(View(c).methods), key) = Declared(c, key)

\* C7 (amended): when the two stores declare disjoint sets of methods, the
\* merged method map has the union of the keys and each merged record has
\* the fields of the store that declared it, except that an empty
\* middleware list is reported as absent.
C7_DisjointUnion ==
  \A c \in Classes : DisjointMethods(c) =>
    /\ MethodKeys(Some(View(c))) = MethodKeys(legacy[c]) \cup MethodKeys(standard[c])
    /\ \A key \in MethodKeys(Some(View(c))) :
         MapGet(Val(View(c).methods), key) = DropEmptyList(Declared(c, key))

\* Both stores declare methods, and not the same ones.
C7_Witness ==
  \E c \in Classes :
    /\ DisjointMethods(c)
    /\ MethodKeys(legacy[c]) # {}
    /\ MethodKeys(standard[c]) # {}
    /\ \E key \in MethodKeys(standard[c]) :
         IsDef(MapGet(Val(Val(standard[c]).methods), key).kind)
    /\ \E key \in MethodKeys(legacy[c]) :
         IsDef(MapGet(Val(Val(legacy[c]).methods), key).middlewares)

(***************************************************************************)
(* Claims about makeDecorators.                                            *)
(***************************************************************************)
\* C8: the router built by the controllerToRouter of one makeDecorators
\* call contains exactly the methods annotated with that call's markers,
\* and none annotated only with the other call's markers.
C8_RouterHasExactlyOwnMethods ==
  \A d \in DecoratorSets :
    IsDef(lowBuilt[d]) => MapKeySet(Val(lowBuilt[d])) = annotated[d]

(***************************************************************************)
(* Claims about the router builder.                                        *)
(***************************************************************************)
DeclaredKeys(c) == MapKeySet(Val(Coalesce(View(c).methods, Some(<<>>))))
EffectiveName(c, key) ==
  LET name == MapGet(Val(View(c).methods), key).name
  IN IF IsDef(name) THEN Val(name) ELSE key
Collide(c, keys) ==
  \E k1, k2 \in keys : k1 # k2 /\ EffectiveName(c, k1) = EffectiveName(c, k2)
StringKeys(c) == {key \in DeclaredKeys(c) : key # SymbolKey}
IsDuplicateRouteError(error) == IsDef(error) /\ Val(error)[1] = "Duplicate tRPC route name"
UniqueRoutes(c, record) ==
  \A i \in DOMAIN record :
    /\ Cardinality({key \in StringKeys(c) : EffectiveName(c, key) = record[i].k}) = 1
    /\ EffectiveName(c, record[i].v.resolver.method) = record[i].k
    /\ \A j \in DOMAIN record : record[j].k = record[i].k => j = i

\* C9 as stated: when two declared methods of the class resolve to the
\* same effective route name, building the router raises the
\* duplicate-route-name error; when construction succeeds, every route name
\* maps to exactly one declared method.
C9_DuplicateAlwaysDuplicateError ==
  IsDef(built) =>
    /\ Collide("Users", DeclaredKeys("Users")) => IsDuplicateRouteError(Val(built).error)
    /\ ~IsDef(Val(built).error) => UniqueRoutes("Users", Val(built).record)

\* C9 (amended): when two declared methods with string keys resolve to the
\* same effective route name, building the router raises a registration
\* error at construction time and returns no router: the
\* duplicate-route-name error, or the error for a declared member that is
\* not callable when the loop reaches such a member first; it is the
\* duplicate-route-name error whenever every declared member is callable.
\* When construction succeeds, every route name maps to exactly one
\* declared method.
C9_DuplicateRaisesRegistrationError ==
  IsDef(built) =>
    /\ Collide("Users", StringKeys("Users")) =>
         /\ IsDef(Val(built).error)
         /\ Val(built).record = <<>>
         /\ \/ IsDuplicateRouteError(Val(built).error)
            \/ /\ Val(Val(built).error)[1] = "is not a function"
               /\ Val(Val(built).error)[2] \in StringKeys("Users")
               /\ ~isFunction(Val(Val(built).error)[2])
         /\ (\A key \in StringKeys("Users") : isFunction(key))
              => IsDuplicateRouteError(Val(built).error)
    /\ ~IsDef(Val(built).error) => UniqueRoutes("Users", Val(built).record)

\* The explicit route name of "b" is the member name of "a"; the router is
\* refused with the duplicate-route-name error for "a".
C9_Witness ==
  /\ IsDef(built)
  /\ {"a", "b"} \subseteq DeclaredKeys("Users")
  /\ EffectiveName("Users", "b") = "a"
  /\ ~IsDef(MapGet(Val(View("Users").methods), "a").name)
  /\ Val(built).error = Some(<<"Duplicate tRPC route name", "a">>)

(***************************************************************************)
(* Claims about the aggregate router.                                      *)
(***************************************************************************)
\* the namespace the claim gives a list entry: the explicit name if set,
\* else the class name with its first character lower-cased
LowerFirst(chars) ==
  IF Len(chars) = 0 THEN chars ELSE <<toLowerCase(Head(chars))>> \o Tail(chars)
ExplicitName(c) == Field(View(c).class, "name")
ClaimedNamespace(c) ==
  IF IsDef(ExplicitName(c)) THEN Val(ExplicitName(c)) ELSE LowerFirst(constructorName(c))
\* the same, with 'router' for a class that has no name
Namespace(c) ==
  IF IsDef(ExplicitName(c)) THEN Val(ExplicitName(c))
  ELSE IF Len(constructorName(c)) = 0 THEN <<"r", "o", "u", "t", "e", "r">>
  ELSE LowerFirst(constructorName(c))
IsDuplicateNamespaceError(error) ==
  IsDef(error) /\ Val(error)[1] = "Duplicate controller router name"
OwnRouterFails(c) == IsDef(controllerToRouter(legacy[c], standard[c]).error)
SameKeys(result) == result.router = MapKeys(result.routers)

\* C10 as stated: from a map, the namespaces are the caller's keys; from a
\* list, each namespace is the explicit name if set, else the class name
\* with its first character lower-cased, and two entries with the same
\* namespace raise the duplicate-namespace error; the per-namespace routers
\* have the key set of the combined router.
C10_NamespacesAsClaimed ==
  IsDef(aggregate) =>
    LET in == Val(aggregate).controllers
        out == Val(aggregate).result
    IN IF Val(aggregate).isArray
         THEN /\ (\E i, j \in DOMAIN in : i # j /\ ClaimedNamespace(in[i]) = ClaimedNamespace(in[j]))
                   => IsDuplicateNamespaceError(out.error)
              /\ ~IsDef(out.error) =>
                   /\ out.router = [i \in DOMAIN in |-> ClaimedNamespace(in[i])]
                   /\ SameKeys(out)
         ELSE ~IsDef(out.error) =>
                /\ out.router = [i \in DOMAIN in |-> in[i][1]]
                /\ SameKeys(out)

\* C10 (amended): from a map, the namespaces are the caller's keys; from a
\* list, each namespace is the explicit name if set, else the class name
\* with its first character lower-cased, or 'router' when the class has no
\* name; two list entries with the same namespace make construction raise a
\* registration error, which is the duplicate-namespace error unless
\* building a controller's own router fails first; the per-namespace
\* routers have the key set of the combined router.
C10_Namespaces ==
  IsDef(aggregate) =>
    LET in == Val(aggregate).controllers
        out == Val(aggregate).result
    IN IF Val(aggregate).isArray
         THEN /\ (\E i, j \in DOMAIN in : i # j /\ Namespace(in[i]) = Namespace(in[j])) =>
                   /\ IsDef(out.error)
                   /\ out.routers = <<>>
                   /\ (\A i \in DOMAIN in : ~OwnRouterFails(in[i]))
                        => IsDuplicateNamespaceError(out.error)
              /\ ~IsDef(out.error) =>
                   /\ out.router = [i \in DOMAIN in |-> Namespace(in[i])]
                   /\ SameKeys(out)
         ELSE ~IsDef(out.error) =>
                /\ out.router = [i \in DOMAIN in |-> in[i][1]]
                /\ SameKeys(out)

\* A list of the classes Users and users, neither with an explicit name:
\* both resolve to "users" and the duplicate-namespace error is raised.
C10_Witness ==
  /\ IsDef(aggregate)
  /\ Val(aggregate).isArray
  /\ Val(aggregate).controllers = <<"Users", "users">>
  /\ ~IsDef(ExplicitName("Users")) /\ ~IsDef(ExplicitName("users"))
  /\ Val(aggregate).result.error = Some(<<"Duplicate controller router name", UsersChars>>)

(***************************************************************************)
(* Claims about the built procedures.                                      *)
(***************************************************************************)
ParamsOf(c, method) == MapGetOpt(View(c).params, method)
Marked(paramMeta) ==
  IsDef(paramMeta) /\ (IsDef(Val(paramMeta).ctxIndex) \/ IsDef(Val(paramMeta).inputIndex))
\* the positions of the argument list other than the marked ones are undefined
OthersUndefined(args, paramMeta) ==
  \A j \in DOMAIN args :
    (/\ ~(IsDef(paramMeta.ctxIndex) /\ j = Val(paramMeta.ctxIndex) + 1)
     /\ ~(IsDef(paramMeta.inputIndex) /\ j = Val(paramMeta.inputIndex) + 1)) => args[j] = None
HighestMarked(paramMeta) ==
  Max(IF IsDef(paramMeta.ctxIndex) THEN Val(paramMeta.ctxIndex) + 1 ELSE 0,
      IF IsDef(paramMeta.inputIndex) THEN Val(paramMeta.inputIndex) + 1 ELSE 0)

\* C11 as stated: the method of a resolver called with {ctx, input} receives
\* ctx at position ctxIndex and input at position inputIndex, each index on
\* its own, every other position up to the highest marked one undefined;
\* without parameter markers it receives the single {ctx, input} argument.
C11_InjectionIndependent ==
  IsDef(called) =>
    LET paramMeta == ParamsOf("Users", Val(called).method)
        args == Val(called).args
    IN IF Marked(paramMeta)
         THEN /\ Len(args) = HighestMarked(Val(paramMeta))
              /\ IsDef(Val(paramMeta).ctxIndex)
                   => args[Val(Val(paramMeta).ctxIndex) + 1] = Some(Val(called).opts.ctx)
              /\ IsDef(Val(paramMeta).inputIndex)
                   => args[Val(Val(paramMeta).inputIndex) + 1] = Some(Val(called).opts.input)
              /\ OthersUndefined(args, Val(paramMeta))
         ELSE args = <<Some(Val(called).opts)>>

\* C11 (amended): as stated when ctxIndex and inputIndex differ or one is
\* absent; when both markers sit on the same parameter, that position holds
\* input.
C11_Injection ==
  IsDef(called) =>
    LET paramMeta == ParamsOf("Users", Val(called).method)
        args == Val(called).args
    IN IF Marked(paramMeta)
         THEN /\ Len(args) = HighestMarked(Val(paramMeta))
              /\ (IsDef(Val(paramMeta).ctxIndex)
                    /\ Val(paramMeta).ctxIndex # Val(paramMeta).inputIndex)
                   => args[Val(Val(paramMeta).ctxIndex) + 1] = Some(Val(called).opts.ctx)
              /\ IsDef(Val(paramMeta).inputIndex)
                   => args[Val(Val(paramMeta).inputIndex) + 1] = Some(Val(called).opts.input)
              /\ OthersUndefined(args, Val(paramMeta))
         ELSE args = <<Some(Val(called).opts)>>

\* Input at index 0 and context at index 1: the method receives (input, ctx).
C11_Witness ==
  /\ IsDef(called)
  /\ Marked(ParamsOf("Users", Val(called).method))
  /\ Val(ParamsOf("Users", Val(called).method)) = [ctxIndex |-> Some(1), inputIndex |-> Some(0)]
  /\ Val(called).args = <<Some("input"), Some("ctx")>>

(***************************************************************************)
(* Claims about marker applications.                                       *)
(***************************************************************************)
\* the category of a marker and the kind of declaration an application is on
Category(marker) ==
  CASE marker.m = "Router" -> "class"
    [] marker.m \in {"Query", "Mutation", "Subscription", "UseZod"} -> "method"
    [] marker.m \in {"UseMiddlewares", "Auth", "RateLimit", "Meta"} -> "classOrMethod"
    [] OTHER -> "parameter"
DeclKind(args) ==
  IF IsDef(args.ctx) THEN Val(args.ctx).kind
  ELSE IF args.n = 1 THEN "class"
  ELSE IF IsDef(args.index) THEN "parameter"
  ELSE IF args.n = 3 THEN "method"
  ELSE IF args.n = 2 THEN "field"
  ELSE "none"
HasName(args) == IF IsDef(args.ctx) THEN Truthy(Val(args.ctx).name) ELSE Truthy(args.key)
HasConstructor(args) == IsDef(args.ctx) \/ args.target \in {"ctor", "proto"}
\* no member name, no constructor, or a declaration of a category the
\* marker does not support (a field under a method marker is not counted)
Unresolvable(marker, args) ==
  \/ DeclKind(args) = "none"
  \/ ~HasConstructor(args)
  \/ DeclKind(args) # "class" /\ ~HasName(args)
  \/ Category(marker) = "class" /\ DeclKind(args) # "class"
  \/ Category(marker) = "method" /\ DeclKind(args) \in {"class", "parameter"}
  \/ Category(marker) = "classOrMethod" /\ DeclKind(args) = "parameter"
  \/ Category(marker) = "parameter" /\ DeclKind(args) # "parameter"

\* C12: an application from which the marker cannot resolve a target of its
\* own category registers nothing: the class's reconciled class meta,
\* method map and parameter map are the same before and after it.
C12_UnresolvableIsNoOp ==
  IsDef(lastApp) /\ built = None /\ Unresolvable(Val(lastApp).marker, Val(lastApp).args)
    => View("Users") = Val(lastApp).before

\* the units a middleware marker was handed, in argument order
RECURSIVE UnitsInOrder(_)
UnitsInOrder(items) ==
  IF Len(items) = 0 THEN <<>>
  ELSE (IF Head(items)[1] = "unit" THEN <<Head(items)[2]>>
        ELSE IF Head(items)[1] = "array" THEN Head(items)[2]
        ELSE <<>>) \o UnitsInOrder(Tail(items))
UnitsOf(marker) ==
  IF marker.m = "UseMiddlewares" THEN UnitsInOrder(marker.middlewares) ELSE <<marker.mw>>
\* the level an application is on: "class", or the member it names
LevelOf(args) ==
  IF DeclKind(args) = "class" THEN <<"class">>
  ELSE IF IsDef(args.ctx) THEN <<"method", Val(Val(args.ctx).name)>>
  ELSE <<"method", Val(args.key)>>
ModeOf(args) == IF IsDef(args.ctx) THEN "standard" ELSE "legacy"
\* the units applied at one level in one call shape, in order of application
RECURSIVE GroupUnits(_, _, _)
GroupUnits(log, level, mode) ==
  IF Len(log) = 0 THEN <<>>
  ELSE (IF LevelOf(Head(log).args) = level /\ ModeOf(Head(log).args) = mode
          THEN UnitsOf(Head(log).marker) ELSE <<>>) \o GroupUnits(Tail(log), level, mode)
ExpectedChain(method) ==
  GroupUnits(unitsLog, <<"class">>, "legacy") \o GroupUnits(unitsLog, <<"class">>, "standard")
    \o GroupUnits(unitsLog, <<"method", method>>, "legacy")
    \o GroupUnits(unitsLog, <<"method", method>>, "standard")

\* C13: every built procedure has its middleware units attached in the
\* order class-level legacy, class-level modern, method-level legacy,
\* method-level modern, and within each group in the order the markers were
\* applied, a multi-unit marker keeping its argument order.
C13_ChainOrder ==
  IsDef(built) /\ ~IsDef(Val(built).error) =>
    \A i \in DOMAIN Val(built).record :
      Val(built).record[i].v.use = ExpectedChain(Val(built).record[i].v.resolver.method)

\* Units applied to a method (legacy), then to the class in modern and then
\* in legacy mode: the chain runs in the opposite order.
C13_Witness ==
  /\ IsDef(built) /\ ~IsDef(Val(built).error)
  /\ Len(unitsLog) = 3
  /\ LevelOf(unitsLog[1].args) = <<"method", "a">> /\ ModeOf(unitsLog[1].args) = "legacy"
  /\ LevelOf(unitsLog[2].args) = <<"class">> /\ ModeOf(unitsLog[2].args) = "standard"
  /\ LevelOf(unitsLog[3].args) = <<"class">> /\ ModeOf(unitsLog[3].args) = "legacy"
  /\ unitsLog[1].marker.m = "UseMiddlewares" /\ Len(UnitsOf(unitsLog[1].marker)) = 3
  /\ \E i \in DOMAIN Val(built).record :
       /\ Val(built).record[i].k = "a"
       /\ Val(built).record[i].v.use =
            UnitsOf(unitsLog[3].marker) \o UnitsOf(unitsLog[2].marker) \o UnitsOf(unitsLog[1].marker)

KindOf(c, method) == MapGet(Val(View(c).methods), method).kind
BuiltAs(kind) ==
  IF kind = Some("mutation") THEN "mutation"
  ELSE IF kind = Some("subscription") THEN "subscription"
  ELSE "query"

\* C14 as stated: a method whose reconciled kind is 'mutation' is built as
\* a mutation procedure, 'subscription' as a subscription procedure,
\* anything else including unset as a query procedure; a method that
\* received only parameter markers has a method record and, once the router
\* is built, is a query procedure of it.
C14_ProcedureKindEveryMethod ==
  /\ \A method \in MapKeySet(Val(Coalesce(View("Users").params, Some(<<>>)))) :
       method \in DeclaredKeys("Users")
  /\ IsDef(built) /\ ~IsDef(Val(built).error) =>
       /\ \A i \in DOMAIN Val(built).record :
            Val(built).record[i].v.kind = BuiltAs(KindOf("Users", Val(built).record[i].v.resolver.method))
       /\ \A method \in DeclaredKeys("Users") :
            ~IsDef(KindOf("Users", method)) =>
              \E i \in DOMAIN Val(built).record :
                /\ Val(built).record[i].v.resolver.method = method
                /\ Val(built).record[i].v.kind = "query"

\* C14 (amended): the same, where the method that received only parameter
\* markers and appears in the router as a query procedure has a string key;
\* a method with a symbol key has a method record but no procedure.
C14_ProcedureKind ==
  /\ \A method \in MapKeySet(Val(Coalesce(View("Users").params, Some(<<>>)))) :
       method \in DeclaredKeys("Users")
  /\ IsDef(built) /\ ~IsDef(Val(built).error) =>
       /\ \A i \in DOMAIN Val(built).record :
            Val(built).record[i].v.kind = BuiltAs(KindOf("Users", Val(built).record[i].v.resolver.method))
       /\ \A method \in StringKeys("Users") :
            ~IsDef(KindOf("Users", method)) =>
              \E i \in DOMAIN Val(built).record :
                /\ Val(built).record[i].v.resolver.method = method
                /\ Val(built).record[i].v.kind = "query"
       /\ \A i \in DOMAIN Val(built).record :
            Val(built).record[i].v.resolver.method # SymbolKey

\* Method "a" has only a Ctx marker; "b" is a mutation: the router has "a"
\* as a query and "b" as a mutation.
C14_Witness ==
  /\ IsDef(built) /\ ~IsDef(Val(built).error)
  /\ DeclaredKeys("Users") = {"a", "b"}
  /\ ~IsDef(KindOf("Users", "a")) /\ Marked(ParamsOf("Users", "a"))
  /\ KindOf("Users", "b") = Some("mutation")
  /\ \E i, j \in DOMAIN Val(built).record :
       /\ Val(built).record[i].k = "a" /\ Val(built).record[i].v.kind = "query"
       /\ Val(built).record[j].k = "b" /\ Val(built).record[j].v.kind = "mutation"

(***************************************************************************)
(* Claims about the stores of a class hierarchy.                           *)
(***************************************************************************)
\* the view made of the properties that sit on the class's own holders
OwnView(c) == readStore(legacy[c], standard[c])
RouterOf(c) == controllerToRouter(lookup(legacy, c), lookup(standard, c))

\* C15: the store of a class belongs to that class alone, also when the
\* class extends an annotated class: a marker application on the subclass
\* leaves the parent's stores and the router built from a parent instance
\* unchanged, and what it registered is found in the subclass's own store.
C15_OneStorePerClass ==
  [][(applied' = applied + 1 /\ IsDef(lastApp') /\ Val(lastApp').class = "Admin") =>
       /\ legacy'["Users"] = legacy["Users"]
       /\ standard'["Users"] = standard["Users"]
       /\ RouterOf("Users")' = RouterOf("Users")
       /\ (View("Admin")' # View("Admin") => OwnView("Admin")' = View("Admin")')]_vars

(***************************************************************************)
(* Claims about the order of marker applications.                          *)
(***************************************************************************)
\* the view read from the stores that the legacy-mode applications alone
\* and the modern-mode applications alone produce, each from nothing
SegregatedView(c) ==
  readStore(segregated[c].legacy.legacy, segregated[c].standard.standard)

\* C16: the reconciled view depends only on the sequence of legacy-mode
\* applications and on the sequence of modern-mode applications, not on
\* how the two are interleaved; and reading it again without further
\* annotations gives an equal view.
C16_OrderIndependent ==
  /\ View("Users") = SegregatedView("Users")
  /\ legacy["Users"] = segregated["Users"].legacy.legacy
  /\ standard["Users"] = segregated["Users"].standard.standard
  /\ IsDef(built) => Val(built) = RouterOf("Users")

\* A legacy-mode class name and method kind around a modern-mode
\* registration of the same method.
C16_Witness ==
  /\ applied = 3
  /\ IsDef(legacy["Users"]) /\ IsDef(standard["Users"])
  /\ Field(Val(legacy["Users"]).class, "name") = Some(<<"u">>)
  /\ "a" \in MethodKeys(legacy["Users"]) \cap MethodKeys(standard["Users"])
  /\ MapGet(Val(Val(legacy["Users"]).methods), "a").kind = Some("mutation")
  /\ MapGet(Val(Val(standard["Users"]).methods), "a").kind = Some("query")
  /\ KindOf("Users", "a") = Some("query")

(***************************************************************************)
(* Claims about what router construction leaves alone.                     *)
(***************************************************************************)
RouteKinds(record) == [i \in DOMAIN record |-> <<record[i].k, record[i].v.kind>>]
\* the router of class Users built on its own and the one built for it as
\* the only entry of a map handed to createClassRouter have the same routes
SameRoutesEachTime ==
  (/\ IsDef(built) /\ IsDef(aggregate)
   /\ ~Val(aggregate).isArray
   /\ Len(Val(aggregate).controllers) = 1
   /\ Val(aggregate).controllers[1][2] = "Users") =>
     /\ Val(aggregate).result.error = Val(built).error
     /\ ~IsDef(Val(built).error) =>
          RouteKinds(Val(aggregate).result.routers[1].v) = RouteKinds(Val(built).record)

AdmittedWithin(u, t, W) ==
  {i \in DOMAIN burst.admittedAt[u] :
     burst.admittedAt[u][i] >= t /\ burst.admittedAt[u][i] < t + W}

\* C18: for a rate-limit unit with points = P and window length
\* W = max(1, durationSec) * 1000 ms, any half-open time interval of length
\* W holds at most 2 * P of the unit's admitted invocations.  (An interval
\* that holds some admissions can be moved up to start at the first of them
\* without losing any, so the intervals starting at an admission suffice.)
C18_BurstBound ==
  IsDef(burst.units) =>
    \A u \in 1..2 :
      LET options == Val(burst.units)[u]
          times == {burst.admittedAt[u][i] : i \in DOMAIN burst.admittedAt[u]}
      IN \A t \in times :
           Cardinality(AdmittedWithin(u, t, durationMs(options))) <= 2 * options.points

\* the entry a unit's invocation resolves to: path, or 'unknown' without
\* one, then the limiter key, or 'global' without one
ResolvedKey(path, keyPart) ==
  (IF IsDef(path) THEN Val(path) ELSE "unknown") \o ":" \o
  (IF IsDef(keyPart) THEN Val(keyPart) ELSE "global")

C20_OnlyRealCollisions ==
  /\ (IsDef(built) /\ IsDuplicateRouteError(Val(built).error)) =>
       \E k1, k2 \in StringKeys("Users") :
         /\ k1 # k2
         /\ EffectiveName("Users", k1) = Val(Val(built).error)[2]
         /\ EffectiveName("Users", k2) = Val(Val(built).error)[2]
  /\ (/\ IsDef(aggregate) /\ Val(aggregate).isArray
      /\ IsDuplicateNamespaceError(Val(aggregate).result.error)) =>
       \E i, j \in DOMAIN Val(aggregate).controllers :
         /\ i < j
         /\ Namespace(Val(aggregate).controllers[i]) = Val(Val(aggregate).result.error)[2]
         /\ Namespace(Val(aggregate).controllers[j]) = Val(Val(aggregate).result.error)[2]

=============================================================================
